---- MODULE Spec2Model ----
(***************************************************************************)
(* Personalization engine: the signal-processor worker that consumes       *)
(* interaction events from the file queue and updates the learners'        *)
(* competence maps with a simplified BKT step, and the decision engine's   *)
(* recommendation endpoint that reads those maps.                          *)
(*                                                                         *)
(* Probabilities are fixed-point integers in units of 1/Scale (the code    *)
(* stores round(x, 4)).  The BKT parameters are kept in twentieths         *)
(* (0.10 = 2/20, 0.15 = 3/20, 0.25 = 5/20) so that every intermediate      *)
(* product of the exact rational computation fits in 32 bits.              *)
(* Python's None (and an absent JSON key, which dict.get turns into None)  *)
(* is the string "None".                                                   *)
(***************************************************************************)
EXTENDS Integers, Sequences, FiniteSets, TLC

\* ---------------------------------------------------------------- bounds
MaxEvents == 2          \* events the upstream producer enqueues in a run
EstEvents == 1          \* events queued for the estimator runs
MaxMapLen == 2          \* concepts in a map given to the selector
MaxReports == 2         \* LearnerReport rows created in a run

\* ------------------------------------------------------------- constants
Scale == 10000          \* round(updated_prob_know, 4)
Unit == 20              \* denominator of the BKT parameters below
prob_learn == 2         \* 0.10
prob_slip == 3          \* 0.15
prob_guess == 5         \* 0.25
DefaultPrior == 1000    \* competenceMap.get(concept_id, 0.1)
mastery_threshold == 9000   \* 0.90
DefaultEngagement == 5000   \* engagementScore default 0.5
strength_threshold == 9000  \* score >= 0.90
weakness_threshold == 6000  \* score < 0.60

NONE == "None"
Workers == {1, 2}
UserIds == {"u1", "u2", "u3"}
ConceptIds == {"art", "math", "reading"}

\* ------------------------------------------------- Python value semantics
\* bool(x) for the values an event field can carry
Truthy(x) == x \notin {NONE, "", "False", "int:0"}

\* ---------------------------------------------- competence map (a dict)
\* A dict is the sequence of its items in insertion order.
Item(c, p) == [k |-> c, v |-> p]

HasKey(m, c) == \E i \in 1..Len(m) : m[i].k = c

\* dict.get(c, d)
Get(m, c, d) ==
  IF HasKey(m, c) THEN m[CHOOSE i \in 1..Len(m) : m[i].k = c].v ELSE d

\* the map replaced by one holding the updated concept only
SetItem_Replace(m, c, p) == << Item(c, p) >>

\* m[c] = p : an existing key keeps its position, a new key goes last
SetItem(m, c, p) ==
  IF HasKey(m, c)
    THEN [i \in 1..Len(m) |-> IF m[i].k = c THEN Item(c, p) ELSE m[i]]
    ELSE Append(m, Item(c, p))

\* ----------------------------------------------------------- BKT update
\* numerator and denominator of prob_know_if_correct / _if_incorrect,
\* for current_prob_know = p / Scale
\* the correct branch multiplying by prob_slip, its "1 -" forgotten
KnowNumerator_SlipOnly(p, correct) == p * prob_slip

KnowNumerator(p, correct) ==
  IF correct THEN p * (Unit - prob_slip) ELSE p * prob_slip

\* the guess terms of the denominators left out
KnowDenominator_NoGuess(p, correct) ==
  IF correct THEN p * (Unit - prob_slip) ELSE p * prob_slip

KnowDenominator(p, correct) ==
  IF correct
    THEN p * (Unit - prob_slip) + (Scale - p) * prob_guess
    ELSE p * prob_slip + (Scale - p) * (Unit - prob_guess)

\* the rounding replaced by truncation
RoundHalfEven_Truncated(x, d) == x \div d

\* round(x / d, 0) the way Python rounds: to nearest, exact ties to even
RoundHalfEven(x, d) ==
  LET q == x \div d
      r == x % d
  IN  IF 2 * r < d THEN q
      ELSE IF 2 * r > d THEN q + 1
      ELSE IF q % 2 = 0 THEN q ELSE q + 1

\* the learning transition added without its (1 - know) factor
UpdatedProbKnow_NoComplement(p, correct) ==
  LET n == KnowNumerator(p, correct)
      d == KnowDenominator(p, correct)
  IN  RoundHalfEven((Scale \div Unit) * (Unit * n + prob_learn * d), d)

\* the learning transition left out: the Bayes posterior stored as it is
UpdatedProbKnow_NoLearning(p, correct) ==
  RoundHalfEven(Scale * KnowNumerator(p, correct), KnowDenominator(p, correct))

\* the two branches of "if is_correct" exchanged
UpdatedProbKnow_Swapped(p, correct) ==
  LET n == KnowNumerator(p, ~ correct)
      d == KnowDenominator(p, ~ correct)
  IN  RoundHalfEven((Scale \div Unit) * ((Unit - prob_learn) * n + prob_learn * d), d)

\* round(know + (1 - know) * prob_learn, 4) in units of 1/Scale,
\* where know = n / d
UpdatedProbKnow(p, correct) ==
  LET n == KnowNumerator(p, correct)
      d == KnowDenominator(p, correct)
  IN  RoundHalfEven((Scale \div Unit) * ((Unit - prob_learn) * n + prob_learn * d), d)

\* ---------------------------------------------------------------- events
Ev(t, u, kind, c, ic) ==
  [interactionType |-> t, userId |-> u,
   data |-> [kind |-> kind, conceptId |-> c, isCorrect |-> ic]]

\* The events the upstream producer may send.  data.kind is "dict" for a
\* JSON object, "absent" for a missing key, "null" for JSON null and "str"
\* for a JSON string.
EventPool ==
  { Ev("QUIZ_ATTEMPT", "u1", "dict", "math", "True"),
    Ev("QUIZ_ATTEMPT", "u1", "dict", "math", "False"),
    Ev("QUIZ_ATTEMPT", "u1", "dict", "reading", "True"),
    Ev("QUIZ_ATTEMPT", "u2", "dict", "math", "False"),
    Ev("QUIZ_ATTEMPT", "u3", "dict", "math", "True"),
    Ev("VIDEO_WATCH", "u1", "dict", "math", "True"),
    Ev(NONE, "u3", "dict", "math", "True"),
    Ev("QUIZ_ATTEMPT", NONE, "dict", "math", "True"),
    Ev("QUIZ_ATTEMPT", "", "dict", "math", "True"),
    Ev("QUIZ_ATTEMPT", "u1", "dict", NONE, "True"),
    Ev("QUIZ_ATTEMPT", "u1", "dict", "", "False"),
    Ev("QUIZ_ATTEMPT", "u1", "dict", "math", NONE),
    Ev("QUIZ_ATTEMPT", "u1", "absent", NONE, NONE),
    Ev("QUIZ_ATTEMPT", "u1", "null", NONE, NONE),
    Ev("QUIZ_ATTEMPT", "u1", "str", NONE, NONE),
    Ev("QUIZ_ATTEMPT", "u1", "dict", "math", "str:false"),
    Ev("QUIZ_ATTEMPT", "u1", "dict", "reading", "int:0") }

\* event.get("data", {}) followed by data.get(...): a value that is not a
\* dict has no .get and raises AttributeError
DataRaises(e) == e.data.kind \in {"null", "str"}

\* the identifiers tested with "is not None" instead of their truth value
Invalid_NoneOnly(e) ==
  ~ (e.userId # NONE /\ e.data.conceptId # NONE /\ e.data.isCorrect # NONE)

\* not all([user_id, concept_id, is_correct is not None])
Invalid(e) ==
  ~ (Truthy(e.userId) /\ Truthy(e.data.conceptId) /\ e.data.isCorrect # NONE)

\* ------------------------------------------------------------- profiles
Profile(present, m, eng) ==
  [present |-> present, competenceMap |-> m, engagementScore |-> eng]

NoProfile == Profile(FALSE, <<>>, 0)

\* LearnerProfile tables the external provisioning may have left
InitialStores ==
  { [u \in UserIds |->
       CASE u = "u1" -> Profile(TRUE, <<Item("math", 5000), Item("reading", 9500)>>, 5000)
         [] u = "u2" -> NoProfile
         [] OTHER -> NoProfile],
    [u \in UserIds |->
       CASE u = "u1" -> Profile(TRUE, <<Item("reading", 1000)>>, 7000)
         [] u = "u2" -> Profile(TRUE, <<Item("math", 0)>>, 5000)
         [] OTHER -> NoProfile],
    [u \in UserIds |->
       CASE u = "u1" -> Profile(TRUE, <<>>, 5000)
         [] u = "u2" -> Profile(TRUE, <<Item("reading", 10000), Item("math", 9000)>>, 2000)
         [] OTHER -> NoProfile] }

\* ContentNode rows: (id, contentJson["conceptId"])
ContentNodes == << [id |-> "node_math", conceptId |-> "math"] >>

\* ------------------------------------------------------------------ state
VARIABLES
  queue,      \* message_queue.json: the list of queued events, oldest first
  sent,       \* the events the producer has enqueued, in order
  profiles,   \* LearnerProfile table, by userId
  instances,  \* the worker processes that were started
  pc,         \* per worker: position in main()
  messages,   \* per worker: the fetched events not yet processed
  loaded,     \* per worker: the profile row its session loaded
  handed,     \* per event: times it was passed to process_interaction_event
  cleared,    \* event ids removed from the queue file
  writes,     \* number of commits that wrote a profile
  serial,     \* the table had every enqueued event been applied in order
  response,   \* the last /recommend response
  reports,    \* LearnerReport table, in order of creation
  reportJob   \* the last report generation: whom it was for, rows it added

vars == <<queue, sent, profiles, instances, pc, messages, loaded, handed,
          cleared, writes, serial, response, reports, reportJob>>

reportVars == <<reports, reportJob>>

NoJob == [userId |-> NONE, created |-> 0]

NoResponse ==
  [userId |-> NONE, status |-> 0, target |-> NONE, contentNodeId |-> NONE]

\* ------------------------------------------- process_interaction_event
\* the "if not profile" check missing: the attribute access on None raises
Outcome_NoProfileCheck(e, store) ==
  IF e.interactionType # "QUIZ_ATTEMPT" THEN "ignored"
  ELSE IF DataRaises(e) THEN "raises"
  ELSE IF Invalid(e) THEN "invalid"
  ELSE IF e.userId \notin UserIds \/ ~ store[e.userId].present THEN "raises"
  ELSE "load"

\* the test of interactionType missing
Outcome_NoTypeCheck(e, store) ==
  IF DataRaises(e) THEN "raises"
  ELSE IF Invalid(e) THEN "invalid"
  ELSE IF e.userId \notin UserIds \/ ~ store[e.userId].present THEN "noprofile"
  ELSE "load"

\* What the handler does with event e when the table is store
Outcome(e, store) ==
  IF e.interactionType # "QUIZ_ATTEMPT" THEN "ignored"
  ELSE IF DataRaises(e) THEN "raises"
  ELSE IF Invalid(e) THEN "invalid"
  ELSE IF e.userId \notin UserIds \/ ~ store[e.userId].present THEN "noprofile"
  ELSE "load"

\* the default prior left out of the lookup
CurrentProbKnow_NoDefault(m, c) == Get(m, c, 0)

\* current_prob_know = profile.competenceMap.get(concept_id, 0.1)
CurrentProbKnow(m, c) == Get(m, c, DefaultPrior)

\* the map after profile.competenceMap[concept_id] = round(updated, 4)
UpdatedMap(m, e) ==
  SetItem(m, e.data.conceptId,
          UpdatedProbKnow(CurrentProbKnow(m, e.data.conceptId),
                          Truthy(e.data.isCorrect)))

\* the division of the BKT step raises ZeroDivisionError
DivisionRaises(m, e) ==
  KnowDenominator(CurrentProbKnow(m, e.data.conceptId), Truthy(e.data.isCorrect)) = 0

\* the table after the whole handler ran on e with nothing else running
Applied(store, e) ==
  IF Outcome(e, store) = "load" /\ ~ DivisionRaises(store[e.userId].competenceMap, e)
    THEN [store EXCEPT ![e.userId].competenceMap = UpdatedMap(@, e)]
    ELSE store

\* ---------------------------------------------------------------- producer
\* the upstream system appends an event to the queue file
Enqueue(e) ==
  /\ Len(sent) < MaxEvents
  /\ sent' = Append(sent, e)
  /\ handed' = Append(handed, 0)
  /\ queue' = Append(queue, [id |-> Len(sent) + 1, msg |-> e])
  /\ serial' = Applied(serial, e)
  /\ UNCHANGED reportVars
  /\ UNCHANGED <<profiles, instances, pc, messages, loaded, cleared, writes,
                 response>>

\* ------------------------------------------------------------------ worker
Ids(s) == {s[i].id : i \in 1..Len(s)}

\* after the for loop over the batch: back to the top of while True
AfterEvent(w) ==
  /\ messages' = [messages EXCEPT ![w] = Tail(@)]
  /\ pc' = [pc EXCEPT ![w] = IF Len(messages[w]) = 1 THEN "idle" ELSE "loop"]

\* the batch walked from its last event to its first
ReadQueue_Reversed(w) ==
  /\ w \in instances
  /\ pc[w] = "idle"
  /\ messages' = [messages EXCEPT ![w] =
                    [i \in 1..Len(queue) |-> queue[Len(queue) + 1 - i]]]
  /\ pc' = [pc EXCEPT ![w] = "opened"]
  /\ UNCHANGED reportVars
  /\ UNCHANGED <<queue, sent, profiles, instances, loaded, handed, cleared,
                 writes, serial, response>>

\* get_messages_from_queue: messages = json.load(f)
ReadQueue(w) ==
  /\ w \in instances
  /\ pc[w] = "idle"
  /\ messages' = [messages EXCEPT ![w] = queue]
  /\ pc' = [pc EXCEPT ![w] = "opened"]
  /\ UNCHANGED reportVars
  /\ UNCHANGED <<queue, sent, profiles, instances, loaded, handed, cleared,
                 writes, serial, response>>

\* get_messages_from_queue: f.seek(0); f.truncate(); json.dump([], f),
\* then main() enters the for loop, or sleeps when nothing was fetched
ClearQueue(w) ==
  /\ pc[w] = "opened"
  /\ queue' = <<>>
  /\ cleared' = cleared \cup Ids(queue)
  /\ pc' = [pc EXCEPT ![w] = IF messages[w] = <<>> THEN "idle" ELSE "loop"]
  /\ UNCHANGED reportVars
  /\ UNCHANGED <<sent, profiles, instances, messages, loaded, handed, writes,
                 serial, response>>

Hand(w) == handed' = [handed EXCEPT ![Head(messages[w]).id] = @ + 1]

\* process_interaction_event returns early: not a quiz attempt, an invalid
\* event, or no profile for the user
SkipEvent(w) ==
  /\ pc[w] = "loop"
  /\ Outcome(Head(messages[w]).msg, profiles) \in {"ignored", "invalid", "noprofile"}
  /\ Hand(w)
  /\ AfterEvent(w)
  /\ UNCHANGED reportVars
  /\ UNCHANGED <<queue, sent, profiles, instances, loaded, cleared, writes,
                 serial, response>>

\* data.get raises AttributeError; main() has no except clause, so the
\* exception leaves the while loop and the process ends
RaiseOnData(w) ==
  /\ pc[w] = "loop"
  /\ Outcome(Head(messages[w]).msg, profiles) = "raises"
  /\ Hand(w)
  /\ pc' = [pc EXCEPT ![w] = "crashed"]
  /\ UNCHANGED reportVars
  /\ UNCHANGED <<queue, sent, profiles, instances, messages, loaded, cleared,
                 writes, serial, response>>

\* the query returns the user's row; the session holds it until commit
LoadProfile(w) ==
  /\ pc[w] = "loop"
  /\ Outcome(Head(messages[w]).msg, profiles) = "load"
  /\ Hand(w)
  /\ loaded' = [loaded EXCEPT ![w] = profiles[Head(messages[w]).msg.userId]]
  /\ pc' = [pc EXCEPT ![w] = "loaded"]
  /\ UNCHANGED reportVars
  /\ UNCHANGED <<queue, sent, profiles, instances, messages, cleared, writes,
                 serial, response>>

\* the BKT step on the loaded row, then db.commit(): the row's competenceMap
\* column is written as a whole
CommitUpdate(w) ==
  /\ pc[w] = "loaded"
  /\ LET e == Head(messages[w]).msg IN
       /\ ~ DivisionRaises(loaded[w].competenceMap, e)
       /\ profiles' = [profiles EXCEPT ![e.userId].competenceMap =
                                        UpdatedMap(loaded[w].competenceMap, e)]
  /\ writes' = writes + 1
  /\ loaded' = [loaded EXCEPT ![w] = NoProfile]
  /\ AfterEvent(w)
  /\ UNCHANGED reportVars
  /\ UNCHANGED <<queue, sent, instances, handed, cleared, serial, response>>

\* db.commit() raises (the database is unreachable), or the division does:
\* nothing is written and the exception ends the process
RaiseOnCommit(w) ==
  /\ pc[w] = "loaded"
  /\ pc' = [pc EXCEPT ![w] = "crashed"]
  /\ loaded' = [loaded EXCEPT ![w] = NoProfile]
  /\ UNCHANGED reportVars
  /\ UNCHANGED <<queue, sent, profiles, instances, messages, handed, cleared,
                 writes, serial, response>>

\* ------------------------------------------------------- get_recommendation
RECURSIVE InsertByScore_Unstable(_, _)
\* an insertion that puts an item before the items of equal score
InsertByScore_Unstable(x, s) ==
  IF s = <<>> THEN <<x>>
  ELSE IF Head(s).v < x.v THEN <<Head(s)>> \o InsertByScore_Unstable(x, Tail(s))
  ELSE <<x>> \o s

RECURSIVE InsertByScore(_, _)
\* where sorted() puts item x among the already sorted s: after every item
\* whose score is not larger (the sort is stable)
InsertByScore(x, s) ==
  IF s = <<>> THEN <<x>>
  ELSE IF Head(s).v <= x.v THEN <<Head(s)>> \o InsertByScore(x, Tail(s))
  ELSE <<x>> \o s

RECURSIVE SortedByScore(_)
\* sorted(items, key=lambda item: item[1])
SortedByScore(s) ==
  IF s = <<>> THEN <<>>
  ELSE InsertByScore(s[Len(s)], SortedByScore(SubSeq(s, 1, Len(s) - 1)))

\* the threshold itself counted as not mastered
BelowThreshold_Inclusive(item) == item.v <= mastery_threshold

\* item[1] < mastery_threshold
BelowThreshold(item) == item.v < mastery_threshold

\* weakest_concepts
WeakestConcepts(m) == SortedByScore(SelectSeq(m, BelowThreshold))

\* ContentNode query .first()
NodesFor(c) == SelectSeq(ContentNodes, LAMBDA n : n.conceptId = c)

\* the response to POST /recommend {userId: u}
Recommendation(u, store) ==
  IF ~ store[u].present \/ store[u].competenceMap = <<>>
    THEN [userId |-> u, status |-> 404, target |-> NONE, contentNodeId |-> NONE]
  ELSE LET weakest == WeakestConcepts(store[u].competenceMap) IN
    IF weakest = <<>>
      THEN [userId |-> u, status |-> 200, target |-> NONE, contentNodeId |-> NONE]
    ELSE IF NodesFor(weakest[1].k) = <<>>
      THEN [userId |-> u, status |-> 404, target |-> weakest[1].k, contentNodeId |-> NONE]
    ELSE [userId |-> u, status |-> 200, target |-> weakest[1].k,
          contentNodeId |-> NodesFor(weakest[1].k)[1].id]

Recommend(u) ==
  /\ response' = Recommendation(u, profiles)
  /\ UNCHANGED reportVars
  /\ UNCHANGED <<queue, sent, profiles, instances, pc, messages, loaded, handed,
                 cleared, writes, serial>>

\* --------------------------------------------------------- report_generator
Keys(m) == [i \in 1..Len(m) |-> m[i].k]

\* every concept short of mastery listed as a weakness
Weaknesses_BelowMastery(m) ==
  Keys(SelectSeq(m, LAMBDA item : item.v < strength_threshold))

\* [concept for concept, score in competence_map.items() if score >= 0.90]
Strengths(m) == Keys(SelectSeq(m, LAMBDA item : item.v >= strength_threshold))

\* [concept for concept, score in competence_map.items() if score < 0.60]
Weaknesses(m) == Keys(SelectSeq(m, LAMBDA item : item.v < weakness_threshold))

\* UserInteraction rows: (userId, createdAt >= one_week_ago)
UserInteractions ==
  << [userId |-> "u1", recent |-> TRUE], [userId |-> "u1", recent |-> FALSE],
     [userId |-> "u2", recent |-> TRUE] >>

\* recent_activity_count
RecentActivityCount(u) ==
  Len(SelectSeq(UserInteractions, LAMBDA r : r.userId = u /\ r.recent))

\* the LearnerReport row built from a profile; detailed is TRUE for the
\* single-user report, whose summary also names strengths[:2]
ReportRow(u, p, detailed) ==
  [userId |-> u,
   reportData |->
     [activities |-> RecentActivityCount(u),
      summaryStrengths |-> IF detailed
                             THEN SubSeq(Strengths(p.competenceMap), 1,
                                         IF Len(Strengths(p.competenceMap)) < 2
                                           THEN Len(Strengths(p.competenceMap)) ELSE 2)
                             ELSE <<>>,
      details |-> detailed,
      strengths |-> Strengths(p.competenceMap),
      weaknesses |-> Weaknesses(p.competenceMap),
      engagementScore |-> p.engagementScore]]

\* the check for an empty competence map missing
ReportRows_NoEmptyCheck(u, store, detailed) ==
  IF ~ store[u].present THEN <<>> ELSE << ReportRow(u, store[u], detailed) >>

\* the rows one profile contributes: none when the profile is missing or its
\* competence map is empty
ReportRows(u, store, detailed) ==
  IF ~ store[u].present THEN <<>>
  ELSE IF store[u].competenceMap = <<>> THEN <<>>
  ELSE << ReportRow(u, store[u], detailed) >>

\* generate_report_for_user(user_id)
GenerateReport(u) ==
  /\ Len(reports) + Len(ReportRows(u, profiles, TRUE)) <= MaxReports
  /\ reports' = reports \o ReportRows(u, profiles, TRUE)
  /\ reportJob' = [userId |-> u, created |-> Len(ReportRows(u, profiles, TRUE))]
  /\ UNCHANGED <<queue, sent, profiles, instances, pc, messages, loaded, handed,
                 cleared, writes, serial, response>>

\* db.query(LearnerProfile).all()
UserOrder == << "u1", "u2", "u3" >>

RECURSIVE AllReportRows(_, _)
\* the rows the weekly job adds for the profiles us, in order
AllReportRows(us, store) ==
  IF us = <<>> THEN <<>>
  ELSE ReportRows(Head(us), store, FALSE) \o AllReportRows(Tail(us), store)

\* generate_reports_for_all_users()
GenerateAllReports ==
  /\ Len(reports) + Len(AllReportRows(UserOrder, profiles)) <= MaxReports
  /\ reports' = reports \o AllReportRows(UserOrder, profiles)
  /\ reportJob' = [userId |-> "*", created |-> Len(AllReportRows(UserOrder, profiles))]
  /\ UNCHANGED <<queue, sent, profiles, instances, pc, messages, loaded, handed,
                 cleared, writes, serial, response>>

\* ----------------------------------------------------------- specification
WorkersIdle ==
  /\ pc = [w \in Workers |-> "idle"]
  /\ messages = [w \in Workers |-> <<>>]
  /\ loaded = [w \in Workers |-> NoProfile]
  /\ cleared = {}
  /\ writes = 0
  /\ response = NoResponse
  /\ reports = <<>>
  /\ reportJob = NoJob

InitCommon ==
  /\ queue = <<>>
  /\ sent = <<>>
  /\ handed = <<>>
  /\ serial = profiles
  /\ WorkersIdle

\* one worker process, as main() is run
Init ==
  /\ profiles \in InitialStores
  /\ instances = {1}
  /\ InitCommon

Next ==
  \/ \E e \in EventPool : Enqueue(e)
  \/ \E w \in Workers : ReadQueue(w)
  \/ \E w \in Workers : ClearQueue(w)
  \/ \E w \in Workers : SkipEvent(w)
  \/ \E w \in Workers : RaiseOnData(w)
  \/ \E w \in Workers : LoadProfile(w)
  \/ \E w \in Workers : CommitUpdate(w)
  \/ \E w \in Workers : RaiseOnCommit(w)
  \/ \E u \in UserIds : Recommend(u)

Spec == Init /\ [][Next]_vars

\* --- two worker processes started on the same queue file and database
ConcPool ==
  { Ev("QUIZ_ATTEMPT", "u1", "dict", "math", "True"),
    Ev("QUIZ_ATTEMPT", "u1", "dict", "math", "False"),
    Ev("QUIZ_ATTEMPT", "u1", "dict", "reading", "True"),
    Ev("QUIZ_ATTEMPT", "u3", "dict", "math", "True"),
    Ev("QUIZ_ATTEMPT", "u1", "null", NONE, NONE) }

InitConc ==
  /\ profiles \in InitialStores
  /\ instances = Workers
  /\ InitCommon

NextConc ==
  \/ \E e \in ConcPool : Enqueue(e)
  \/ \E w \in Workers : ReadQueue(w)
  \/ \E w \in Workers : ClearQueue(w)
  \/ \E w \in Workers : SkipEvent(w)
  \/ \E w \in Workers : RaiseOnData(w)
  \/ \E w \in Workers : LoadProfile(w)
  \/ \E w \in Workers : CommitUpdate(w)
  \/ \E w \in Workers : RaiseOnCommit(w)

SpecConc == InitConc /\ [][NextConc]_vars

\* --- the estimator on every stored prior: one profile whose map holds one
\* concept at any multiple of 1/Scale in [0, 1], and a queue already filled
\* with quiz attempts for that concept
EstPool ==
  { Ev("QUIZ_ATTEMPT", "u1", "dict", "math", "True"),
    Ev("QUIZ_ATTEMPT", "u1", "dict", "math", "False") }

EstBatches == UNION { [1..n -> EstPool] : n \in 1..EstEvents }

RECURSIVE AppliedAll(_, _)
AppliedAll(store, es) ==
  IF es = <<>> THEN store ELSE AppliedAll(Applied(store, Head(es)), Tail(es))

InitEst ==
  /\ \E p \in 0..Scale :
       profiles = [u \in UserIds |->
                     IF u = "u1"
                       THEN Profile(TRUE, <<Item("math", p)>>, DefaultEngagement)
                       ELSE NoProfile]
  /\ instances = {1}
  /\ sent \in EstBatches
  /\ queue = [i \in 1..Len(sent) |-> [id |-> i, msg |-> sent[i]]]
  /\ handed = [i \in 1..Len(sent) |-> 0]
  /\ serial = AppliedAll(profiles, sent)
  /\ WorkersIdle

NextEst ==
  \/ \E w \in Workers : ReadQueue(w)
  \/ \E w \in Workers : ClearQueue(w)
  \/ \E w \in Workers : LoadProfile(w)
  \/ \E w \in Workers : CommitUpdate(w)

SpecEst == InitEst /\ [][NextEst]_vars

\* --- the recommendation endpoint on every small competence map
SelValues == {0, 1000, 5000, 8999, 9000, 9500, 10000}

SelMaps ==
  { m \in UNION { [1..n -> { Item(c, p) : c \in ConceptIds, p \in SelValues }] :
                    n \in 0..MaxMapLen } :
      \A i, j \in 1..Len(m) : m[i].k = m[j].k => i = j }

InitSel ==
  /\ \E m \in SelMaps :
       profiles = [u \in UserIds |->
                     CASE u = "u1" -> Profile(TRUE, m, DefaultEngagement)
                       [] u = "u2" -> Profile(TRUE, <<>>, DefaultEngagement)
                       [] OTHER -> NoProfile]
  /\ instances = {1}
  /\ InitCommon

NextSel == \E u \in UserIds : Recommend(u)

SpecSel == InitSel /\ [][NextSel]_vars

\* --- report generation on every small competence map
RepValues == {0, 5999, 6000, 8999, 9000, 10000}

RepMaps ==
  { m \in UNION { [1..n -> { Item(c, p) : c \in ConceptIds, p \in RepValues }] :
                    n \in 0..MaxMapLen } :
      \A i, j \in 1..Len(m) : m[i].k = m[j].k => i = j }

InitRep ==
  /\ \E m \in RepMaps :
       profiles = [u \in UserIds |->
                     CASE u = "u1" -> Profile(TRUE, m, DefaultEngagement)
                       [] u = "u2" -> Profile(TRUE, << Item("art", 6000) >>, 2000)
                       [] OTHER -> NoProfile]
  /\ instances = {1}
  /\ InitCommon

NextRep ==
  \/ \E u \in UserIds : GenerateReport(u)
  \/ GenerateAllReports

SpecRep == InitRep /\ [][NextRep]_vars

\* --- the whole core: one worker, the recommendation endpoint and both
\* report generators on the same tables
CorePool ==
  { Ev("QUIZ_ATTEMPT", "u1", "dict", "math", "True"),
    Ev("QUIZ_ATTEMPT", "u1", "dict", "reading", "False"),
    Ev("QUIZ_ATTEMPT", "u2", "dict", "math", "False"),
    Ev("QUIZ_ATTEMPT", "u3", "dict", "math", "True") }

\* two users with profiles, a third without
InitCore ==
  /\ profiles = [u \in UserIds |->
                   CASE u = "u1" -> Profile(TRUE, << Item("math", 5000),
                                                    Item("reading", 9500) >>, 5000)
                     [] u = "u2" -> Profile(TRUE, << Item("math", 0) >>, 2000)
                     [] OTHER -> NoProfile]
  /\ instances = {1}
  /\ InitCommon

NextCore ==
  \/ \E e \in CorePool : Enqueue(e)
  \/ \E w \in Workers : ReadQueue(w)
  \/ \E w \in Workers : ClearQueue(w)
  \/ \E w \in Workers : SkipEvent(w)
  \/ \E w \in Workers : LoadProfile(w)
  \/ \E w \in Workers : CommitUpdate(w)
  \/ \E w \in Workers : RaiseOnCommit(w)
  \/ \E u \in UserIds : Recommend(u)
  \/ \E u \in UserIds : GenerateReport(u)
  \/ GenerateAllReports

SpecCore == InitCore /\ [][NextCore]_vars

\* --- one worker on a queue whose events meet on one concept of one user,
\* so that the order of the updates shows in the stored value
OrdPool ==
  { Ev("QUIZ_ATTEMPT", "u1", "dict", "math", "True"),
    Ev("QUIZ_ATTEMPT", "u1", "dict", "math", "False"),
    Ev("QUIZ_ATTEMPT", "u1", "dict", "reading", "True"),
    Ev("VIDEO_WATCH", "u1", "dict", "math", "True"),
    Ev("QUIZ_ATTEMPT", "u1", "null", NONE, NONE) }

\* the LearnerProfile table when the worker starts
OrdStore ==
  [u \in UserIds |->
     IF u = "u1" THEN Profile(TRUE, << Item("math", 5000) >>, DefaultEngagement)
     ELSE NoProfile]

InitOrd ==
  /\ profiles = OrdStore
  /\ instances = {1}
  /\ InitCommon

NextOrd ==
  \/ \E e \in OrdPool : Enqueue(e)
  \/ \E w \in Workers : ReadQueue(w)
  \/ \E w \in Workers : ClearQueue(w)
  \/ \E w \in Workers : SkipEvent(w)
  \/ \E w \in Workers : RaiseOnData(w)
  \/ \E w \in Workers : LoadProfile(w)
  \/ \E w \in Workers : CommitUpdate(w)
  \/ \E w \in Workers : RaiseOnCommit(w)

SpecOrd == InitOrd /\ [][NextOrd]_vars

\* ================================================================ claims
\* the step is one of worker w
WorkerStepped(w) == pc'[w] # pc[w] \/ messages'[w] # messages[w]

\* the event worker w is processing
Current(w) == Head(messages[w]).msg

\* w passes its current event to process_interaction_event in this step
Handles(w) == pc[w] = "loop" /\ WorkerStepped(w)

\* w's commit succeeds in this step
Commits(w) == pc[w] = "loaded" /\ WorkerStepped(w) /\ pc'[w] # "crashed"

IsQuiz(e) == e.interactionType = "QUIZ_ATTEMPT"

WellFormed(e) ==
  /\ IsQuiz(e)
  /\ e.data.kind = "dict"
  /\ e.userId \notin {NONE, ""}
  /\ e.data.conceptId \notin {NONE, ""}
  /\ e.data.isCorrect \in {"True", "False"}

HasProfile(u, store) == u \in UserIds /\ store[u].present

C2_ValuesInUnitInterval ==
  \A u \in UserIds :
    \A i \in 1..Len(profiles[u].competenceMap) :
      /\ profiles[u].competenceMap[i].v >= 0
      /\ profiles[u].competenceMap[i].v <= Scale

\* an attempt was applied to a map holding the upper boundary
C2_Witness ==
  /\ writes > 0
  /\ handed[1] = 1
  /\ profiles["u1"].competenceMap = << Item("math", Scale) >>

\* C3: an event a worker fetched and removed from the queue file is not
\* lost: it was handed to the processing step, or the worker holding it
\* still runs.
C3_NoFetchedEventLost ==
  \A w \in Workers :
    \A i \in Ids(messages[w]) \cap cleared :
      handed[i] > 0 \/ pc[w] # "crashed"

\* C4: once both workers are idle and each event was processed exactly once,
\* the table equals the one obtained by applying the events in event order.
C4_NoLostUpdate ==
  ( /\ queue = <<>>
    /\ \A w \in Workers : pc[w] = "idle" /\ messages[w] = <<>>
    /\ \A i \in 1..Len(sent) : handed[i] = 1 /\ WellFormed(sent[i]) )
  => profiles = serial

\* C5: no event and no failing commit stops the consumer loop.
C5_LoopNeverStops == \A w \in Workers : pc[w] # "crashed"

\* the event lacks a user identifier, a concept identifier or isCorrect
LacksField(e) ==
  \/ e.userId \in {NONE, ""}
  \/ e.data.conceptId \in {NONE, ""}
  \/ e.data.isCorrect = NONE

\* C6: processing a QUIZ_ATTEMPT event that lacks a user identifier, a
\* concept identifier or data.isCorrect changes no profile, writes nothing,
\* and (its data being an object or absent) returns to the loop.
C6_InvalidEventSkipped ==
  [][\A w \in Workers :
       (Handles(w) /\ IsQuiz(Current(w)) /\ LacksField(Current(w))) =>
          /\ profiles' = profiles
          /\ writes' = writes
          /\ pc'[w] # "loaded"
          /\ Current(w).data.kind \in {"dict", "absent"} =>
               (pc'[w] \in {"idle", "loop"} /\ messages'[w] = Tail(messages[w]))
    ]_vars

\* an event with an empty concept identifier was processed, and the one
\* queued behind it too
C6_Witness ==
  /\ Len(sent) = 2
  /\ sent[1] = Ev("QUIZ_ATTEMPT", "u1", "dict", "", "False")
  /\ handed[1] = 1
  /\ handed[2] = 1
  /\ profiles["u1"].present

\* C9 as claimed: prior 0.10 and a correct answer store 0.3588.
C9_Pinned3588 ==
  [][\A w \in Workers :
       (Commits(w) /\ WellFormed(Current(w)) /\ Current(w).data.isCorrect = "True"
          /\ (HasKey(profiles[Current(w).userId].competenceMap, Current(w).data.conceptId)
                => Get(profiles[Current(w).userId].competenceMap,
                       Current(w).data.conceptId, 0) = 1000)) =>
          Get(profiles'[Current(w).userId].competenceMap,
              Current(w).data.conceptId, 0) = 3588
    ]_vars

\* C9: prior 0.10 (stored, or the default of an unobserved concept) and a
\* correct answer store 0.3468.
C9_Pinned3468 ==
  [][\A w \in Workers :
       (Commits(w) /\ WellFormed(Current(w)) /\ Current(w).data.isCorrect = "True"
          /\ (HasKey(profiles[Current(w).userId].competenceMap, Current(w).data.conceptId)
                => Get(profiles[Current(w).userId].competenceMap,
                       Current(w).data.conceptId, 0) = 1000)) =>
          Get(profiles'[Current(w).userId].competenceMap,
              Current(w).data.conceptId, 0) = 3468
    ]_vars

\* a correct attempt was applied to a concept stored at 0.10
C9_Witness ==
  /\ writes = 1
  /\ sent = << Ev("QUIZ_ATTEMPT", "u1", "dict", "reading", "True") >>
  /\ profiles["u1"].competenceMap = << Item("reading", 3468) >>

\* C10: processing a well-formed QUIZ_ATTEMPT event whose user has no
\* profile creates and changes no profile, writes nothing, and the worker
\* goes on with the rest of its batch.
C10_MissingProfileSkipped ==
  [][\A w \in Workers :
       (Handles(w) /\ WellFormed(Current(w))
          /\ ~ HasProfile(Current(w).userId, profiles)) =>
          /\ profiles' = profiles
          /\ writes' = writes
          /\ messages'[w] = Tail(messages[w])
          /\ pc'[w] = IF messages'[w] = <<>> THEN "idle" ELSE "loop"
    ]_vars

\* an event for a user without a profile was processed and the event behind
\* it in the same batch was applied
C10_Witness ==
  /\ Len(sent) = 2
  /\ sent[1] = Ev("QUIZ_ATTEMPT", "u3", "dict", "math", "True")
  /\ sent[2] = Ev("QUIZ_ATTEMPT", "u1", "dict", "math", "True")
  /\ handed = <<1, 1>>
  /\ writes = 1
  /\ ~ profiles["u3"].present

\* the map of the user the last response is about
AskedMap == profiles[response.userId].competenceMap

Answered == response.userId \in UserIds /\ profiles[response.userId].present

\* the response is {"contentNodeId": None}
ReturnsNone == response.status = 200 /\ response.contentNodeId = NONE

AllMastered(m) == \A i \in 1..Len(m) : m[i].v >= 9000

\* C7 as claimed: for a user with a profile the selection returns None iff
\* every concept of the map is at 0.90 or above, the empty map included, and
\* otherwise a concept is selected.
C7_NoneIffAllMastered ==
  Answered =>
    /\ ReturnsNone <=> AllMastered(AskedMap)
    /\ ~ AllMastered(AskedMap) => HasKey(AskedMap, response.target)

\* C7: for a user whose map is not empty the selection returns None iff
\* every concept is at 0.90 or above and otherwise selects a concept of the
\* map; for an empty map the request fails with 404 and selects nothing.
C7_NoneIffNonEmptyAllMastered ==
  Answered =>
    /\ AskedMap # <<>> =>
         /\ ReturnsNone <=> AllMastered(AskedMap)
         /\ ~ AllMastered(AskedMap) => HasKey(AskedMap, response.target)
    /\ AskedMap = <<>> =>
         (response.status = 404 /\ response.target = NONE /\ ~ ReturnsNone)

\* None was returned for a map whose concepts are all mastered, one of them
\* exactly at the threshold
C7_Witness ==
  /\ ReturnsNone
  /\ response.userId = "u1"
  /\ AskedMap = << Item("reading", 9500), Item("math", 9000) >>

\* the identifiers' lexicographic order
Rank(c) == CASE c = "art" -> 1 [] c = "math" -> 2 [] c = "reading" -> 3 [] OTHER -> 0

SomeBelow(m) == \E i \in 1..Len(m) : m[i].v < 9000

IsMinimum(m, c) ==
  HasKey(m, c) /\ \A i \in 1..Len(m) : Get(m, c, 0) <= m[i].v

\* C8 as claimed: the selected concept has the minimum mastery of the map,
\* and of the concepts sharing the minimum it is the lexicographically
\* smallest.
C8_MinimumLexicographic ==
  (Answered /\ SomeBelow(AskedMap)) =>
    /\ IsMinimum(AskedMap, response.target)
    /\ \A i \in 1..Len(AskedMap) :
         IsMinimum(AskedMap, AskedMap[i].k) =>
           Rank(response.target) <= Rank(AskedMap[i].k)

\* C8: the selected concept has the minimum mastery of the map, and of the
\* concepts sharing the minimum it is the one inserted first.
C8_MinimumFirstInserted ==
  (Answered /\ SomeBelow(AskedMap)) =>
    /\ IsMinimum(AskedMap, response.target)
    /\ \E j \in 1..Len(AskedMap) :
         /\ AskedMap[j].k = response.target
         /\ \A i \in 1..Len(AskedMap) :
              IsMinimum(AskedMap, AskedMap[i].k) => j <= i

\* two concepts share the minimum and the one inserted first, which is not
\* the lexicographically smaller, was selected
C8_Witness ==
  /\ response.userId = "u1"
  /\ AskedMap = << Item("reading", 5000), Item("math", 5000) >>
  /\ response.target = "reading"

\* the set of the elements of a list
Elems(l) == {l[i] : i \in 1..Len(l)}

\* C11: in every report of a user with a non-empty map the strengths and the
\* weaknesses are disjoint, a concept is a strength iff its mastery is at
\* least 0.90 and a weakness iff it is below 0.60, and a concept in
\* [0.60, 0.90) is in neither list: each concept falls in exactly one band.
C11_BandsPartition ==
  \A n \in 1..Len(reports) :
    LET m == profiles[reports[n].userId].competenceMap
        S == Elems(reports[n].reportData.strengths)
        Wk == Elems(reports[n].reportData.weaknesses)
    IN  /\ S \cap Wk = {}
        /\ S \cup Wk \subseteq Elems(Keys(m))
        /\ \A i \in 1..Len(m) :
             /\ m[i].k \in S <=> m[i].v >= 9000
             /\ m[i].k \in Wk <=> m[i].v < 6000
             /\ (m[i].v >= 6000 /\ m[i].v < 9000) => m[i].k \notin S \cup Wk

\* a report was made of a map holding one concept of the middle band, at its
\* lower edge, and one strength at the threshold
C11_Witness ==
  /\ Len(reports) = 1
  /\ reports[1].userId = "u1"
  /\ profiles["u1"].competenceMap = << Item("math", 6000), Item("art", 9000) >>
  /\ reports[1].reportData.strengths = << "art" >>
  /\ reports[1].reportData.weaknesses = <<>>

\* the step is a generation of a report for user u
GeneratesFor(u) ==
  reportJob'.userId = u /\ (reportJob' # reportJob \/ reports' # reports)

\* C18: a report generation for a user whose profile is missing or whose
\* map is empty adds no LearnerReport row; for a user with a non-empty map
\* it adds exactly one row, for that user.
C18_ReportOnlyForNonEmptyMap ==
  [][\A u \in UserIds :
       GeneratesFor(u) =>
         IF ~ profiles[u].present \/ profiles[u].competenceMap = <<>>
           THEN reports' = reports /\ reportJob'.created = 0
           ELSE /\ Len(reports') = Len(reports) + 1
                /\ SubSeq(reports', 1, Len(reports)) = reports
                /\ reports'[Len(reports')].userId = u
                /\ reportJob'.created = 1
    ]_vars

\* a generation for a user with an empty map added nothing, after one for a
\* user with a non-empty map had added a row
C18_Witness ==
  /\ reportJob = [userId |-> "u1", created |-> 0]
  /\ profiles["u1"].competenceMap = <<>>
  /\ Len(reports) = 1
  /\ reports[1].userId = "u2"
  /\ reports[1].reportData.details

\* C12: no event is held by two worker instances that both fetched it.
C12_NoEventFetchedTwice ==
  \A v, w \in Workers :
    (v # w /\ pc[v] \in {"loop", "loaded"} /\ pc[w] \in {"loop", "loaded"}) =>
      Ids(messages[v]) \cap Ids(messages[w]) = {}

\* the stored value the worker's update starts from
PriorOf(w) ==
  LET m == profiles[Current(w).userId].competenceMap
  IN  IF HasKey(m, Current(w).data.conceptId)
        THEN Get(m, Current(w).data.conceptId, 0) ELSE 1000

\* the value stored by the step under the event's concept
StoredBy(w) ==
  Get(profiles'[Current(w).userId].competenceMap, Current(w).data.conceptId, 0)

\* C13: from any stored prior the value stored after a correct answer is at
\* least the value an incorrect answer would store, and the value stored
\* after an incorrect answer at most the one a correct answer would store.
C13_CorrectAtLeastIncorrect ==
  [][\A w \in Workers :
       (Commits(w) /\ WellFormed(Current(w))) =>
         IF Current(w).data.isCorrect = "True"
           THEN StoredBy(w) >= UpdatedProbKnow(PriorOf(w), FALSE)
           ELSE StoredBy(w) <= UpdatedProbKnow(PriorOf(w), TRUE)
    ]_vars

\* an incorrect answer was applied to a concept stored at 0.5
C13_Witness ==
  /\ writes = 1
  /\ sent = << Ev("QUIZ_ATTEMPT", "u1", "dict", "math", "False") >>
  /\ profiles["u1"].competenceMap = << Item("math", 2500) >>

\* C14: the value stored after a correct answer is never below the stored
\* prior and never above 1.
C14_CorrectNeverDecreases ==
  [][\A w \in Workers :
       (Commits(w) /\ WellFormed(Current(w)) /\ Current(w).data.isCorrect = "True") =>
         (StoredBy(w) >= PriorOf(w) /\ StoredBy(w) <= Scale)
    ]_vars

\* a correct answer was applied to a concept stored below 1 and raised it,
\* to 0.7955
C14_Witness ==
  /\ writes = 1
  /\ sent[1] = Ev("QUIZ_ATTEMPT", "u1", "dict", "math", "True")
  /\ handed[1] = 1
  /\ profiles["u1"].competenceMap = << Item("math", 7955) >>
  /\ pc[1] = "idle"

\* C15 as claimed: a QUIZ_ATTEMPT event whose isCorrect is present but not a
\* boolean is skipped, and only events with a boolean flag are applied.
C15_NonBooleanSkipped ==
  [][\A w \in Workers :
       /\ (Handles(w) /\ IsQuiz(Current(w)) /\ Current(w).data.kind = "dict"
             /\ Current(w).data.isCorrect \notin {"True", "False"}) =>
            (pc'[w] \in {"idle", "loop"} /\ profiles' = profiles)
       /\ Commits(w) => Current(w).data.isCorrect \in {"True", "False"}
    ]_vars

\* the scenario's profile after its one event: a correct attempt for math was
\* applied to a map that holds reading at 0.95
E2EApplied ==
  /\ sent = << Ev("QUIZ_ATTEMPT", "u1", "dict", "math", "True") >>
  /\ writes = 1
  /\ HasKey(profiles["u1"].competenceMap, "reading")
  /\ Get(profiles["u1"].competenceMap, "reading", 0) = 9500

C17_OtherKindsIgnored ==
  [][\A w \in Workers :
       (Handles(w) /\ ~ IsQuiz(Current(w))) =>
          /\ profiles' = profiles
          /\ writes' = writes
          /\ messages'[w] = Tail(messages[w])
          /\ pc'[w] = IF messages'[w] = <<>> THEN "idle" ELSE "loop"
    ]_vars

\* an event without interactionType, for a user without a profile, was
\* processed and the quiz attempt behind it was applied
C17_Witness ==
  /\ Len(sent) = 2
  /\ sent[1] = Ev(NONE, "u3", "dict", "math", "True")
  /\ sent[2] = Ev("QUIZ_ATTEMPT", "u1", "dict", "math", "True")
  /\ handed = <<1, 1>>
  /\ writes = 1
  /\ pc[1] = "idle"

\* the prior the loaded worker's update starts from is exactly 0 or 1
AtBoundary(w) ==
  /\ pc[w] = "loaded"
  /\ CurrentProbKnow(loaded[w].competenceMap, Current(w).data.conceptId) \in {0, Scale}

\* C19: with the prior exactly 0 or exactly 1 the divisor of the update is
\* not zero for either outcome, and the update stores 0.10 from prior 0 and
\* 1 from prior 1.
C19_BoundariesDefined ==
  /\ [](\A w \in Workers :
          AtBoundary(w) =>
            KnowDenominator(PriorOf(w), Truthy(Current(w).data.isCorrect)) # 0)
  /\ [][\A w \in Workers :
          (AtBoundary(w) /\ Commits(w)) =>
            StoredBy(w) = IF PriorOf(w) = 0 THEN 1000 ELSE Scale]_vars

\* an incorrect answer was applied to a concept stored at 0
C19_Witness ==
  /\ writes = 1
  /\ sent = << Ev("QUIZ_ATTEMPT", "u1", "dict", "math", "False") >>
  /\ profiles["u1"].competenceMap = << Item("math", 1000) >>

\* the entry of concept c in map m: its value, or -1 when m does not hold c
Entry(m, c) == Get(m, c, -1)

AppliedIds == {i \in 1..Len(sent) : handed[i] > 0 /\ i \notin Ids(messages[1])}

RECURSIVE FoldApplied(_)
\* the handler folded from the starting table over the applied events among
\* the first n of the queue, in queue order
FoldApplied(n) ==
  IF n = 0 THEN OrdStore
  ELSE IF n \in AppliedIds THEN Applied(FoldApplied(n - 1), sent[n])
  ELSE FoldApplied(n - 1)

TypeOK ==
  /\ Len(sent) <= MaxEvents
  /\ Len(handed) = Len(sent)
  /\ \A w \in Workers : pc[w] \in {"idle", "opened", "loop", "loaded", "crashed"}

====
